---- MODULE Spec2Model ----
(***************************************************************************)
(* PSBT value codec (src/src/serialize.rs): the Serialize / Deserialize    *)
(* implementations for the BIP-174 / BIP-371 value types, and the Taproot  *)
(* tree codec that replays a flat (depth, leaf version, script) run into   *)
(* a TaprootBuilder.                                                       *)
(*                                                                         *)
(* Byte strings are sequences over 0..255.  A u32 is kept as two 16-bit    *)
(* limbs [hi, lo] so that every 32-bit value is representable.             *)
(* The functions of the bitcoin / secp256k1 crates that serialize.rs calls *)
(* are modelled at their call sites; signature and key parsing, whose      *)
(* verdict depends on curve arithmetic, is an oracle the caller of the     *)
(* action chooses.                                                         *)
(***************************************************************************)
EXTENDS Integers, Sequences, FiniteSets, TLC

VARIABLES bytes, origin, val, op, res, builder, added, tree

vars == <<bytes, origin, val, op, res, builder, added, tree>>

(***************************************************************************)
(* Bounds of the model.                                                    *)
(***************************************************************************)
\* most 4-byte words in a generated raw input
MaxWords == 3
\* longest tail after the words of a generated raw input
MaxTail == 3
\* longest raw input over WideBytes
MaxWideLen == 2
\* most (depth, version, script) triples in a generated leaf run
MaxRun == 3
\* deepest depth of a generated leaf run or builder insertion
MaxDepth == 3
\* most insertions into a builder
MaxInsert == 5
\* most leaf hashes in a generated (leaf-hash-list, key-source) input
MaxHashes == 2

(***************************************************************************)
(* Results.  Every deserialize returns Ok(value) or Err(Error); Panic is   *)
(* the outcome of a panic!, unreachable!, expect or slice index failure.   *)
(***************************************************************************)
Ok(v) == [tag |-> "Ok", val |-> v, kind |-> "", detail |-> "", code |-> 0]

Err(k, d, c) == [tag |-> "Err", val |-> <<>>, kind |-> k, detail |-> d, code |-> c]

Panic(d) == [tag |-> "Panic", val |-> <<>>, kind |-> "", detail |-> d, code |-> 0]

NoResult == [tag |-> "None", val |-> <<>>, kind |-> "", detail |-> "", code |-> 0]

NoVal == [type |-> "none"]

(***************************************************************************)
(* Byte-string helpers.                                                    *)
(***************************************************************************)
Take(s, n) == SubSeq(s, 1, n)

Drop(s, n) == SubSeq(s, n + 1, Len(s))

Last(s) == s[Len(s)]

Front(s) == SubSeq(s, 1, Len(s) - 1)

RECURSIVE Fill(_, _)
Fill(b, n) == IF n = 0 THEN <<>> ELSE <<b>> \o Fill(b, n - 1)

\* all sequences over S of length at most n
RECURSIVE SeqUpTo(_, _)
SeqUpTo(S, n) ==
    IF n = 0 THEN {<<>>}
    ELSE LET shorter == SeqUpTo(S, n - 1)
         IN  shorter \cup {Append(s, x) : s \in {t \in shorter : Len(t) = n - 1}, x \in S}

(***************************************************************************)
(* u32, little endian (bitcoin::consensus, used at lines 131, 149, 160,    *)
(* 165, 215, 220).                                                         *)
(***************************************************************************)
LeU32(b) == [lo |-> b[1] + 256 * b[2], hi |-> b[3] + 256 * b[4]]

U32ToLe(n) == <<n.lo % 256, n.lo \div 256, n.hi % 256, n.hi \div 256>>

U32OfByte(b) == [lo |-> b, hi |-> 0]

\* consensus::serialize(&u32)
ConsensusSerializeU32(n) == U32ToLe(n)

\* consensus::deserialize::<u32>: deserialize_partial, then all data consumed
ConsensusDeserializeU32(b) ==
    IF Len(b) < 4 THEN Err("ConsensusEncoding", "Io", 0)
    ELSE IF Len(b) # 4 THEN Err("ConsensusEncoding", "ParseFailed", 0)
    ELSE Ok(LeU32(b))

(***************************************************************************)
(* impl Serialize / Deserialize for u32, Sequence, Height, Time,           *)
(* PsbtSighashType, Vec<u8>, ScriptBuf.                                    *)
(***************************************************************************)
U32Serialize(n) == ConsensusSerializeU32(n)

\* variant: a length check of its own in front of the consensus decoder
U32Deserialize_LengthGuard(b) ==
    IF Len(b) < 4 THEN Err("NotEnoughData", "", 0)
    ELSE LET val0 == ConsensusDeserializeU32(b)
         IN  IF val0.tag = "Err" THEN val0 ELSE Ok(val0.val)

U32Deserialize(b) ==
    LET val0 == ConsensusDeserializeU32(b)
    IN  IF val0.tag = "Err" THEN val0 ELSE Ok(val0.val)

SequenceSerialize(n) == ConsensusSerializeU32(n)

SequenceDeserialize(b) ==
    LET n == ConsensusDeserializeU32(b)
    IN  IF n.tag = "Err" THEN n ELSE Ok(n.val)

\* absolute::LOCK_TIME_THRESHOLD = 500_000_000 = 0x1DCD_6500
IsBlockHeight(n) == n.hi < 7629 \/ (n.hi = 7629 /\ n.lo < 25856)

HeightDeserialize(b) ==
    LET n == ConsensusDeserializeU32(b)
    IN  IF n.tag = "Err" THEN n
        ELSE IF ~IsBlockHeight(n.val) THEN Err("LockTime", "Conversion", 0)
        ELSE Ok(n.val)

TimeDeserialize(b) ==
    LET n == ConsensusDeserializeU32(b)
    IN  IF n.tag = "Err" THEN n
        ELSE IF IsBlockHeight(n.val) THEN Err("LockTime", "Conversion", 0)
        ELSE Ok(n.val)

VecU8Deserialize(b) == Ok(b)

ScriptBufSerialize(s) == s

ScriptBufDeserialize(b) == Ok(b)

\* PsbtSighashType::to_u32 (crate::sighash_type): the stored u32
PsbtSighashTypeToU32(t) == t.inner

PsbtSighashTypeSerialize(t) == ConsensusSerializeU32(PsbtSighashTypeToU32(t))

\* variant: only the standard sighash flags are let through
PsbtSighashTypeDeserialize_Strict(b) ==
    LET raw == ConsensusDeserializeU32(b)
    IN  IF raw.tag = "Err" THEN raw
        ELSE IF raw.val.hi # 0 \/ raw.val.lo \notin {0, 1, 2, 3, 129, 130, 131}
             THEN Err("NonStandardSighashType", "", raw.val.lo)
        ELSE Ok([inner |-> raw.val])

PsbtSighashTypeDeserialize(b) ==
    LET raw == ConsensusDeserializeU32(b)
    IN  IF raw.tag = "Err" THEN raw ELSE Ok([inner |-> raw.val])

(***************************************************************************)
(* KeySource = (Fingerprint, DerivationPath).                              *)
(***************************************************************************)
\* ChildNumber::from(u32): bit 31 is the hardened flag
ChildNumberFromU32(n) ==
    IF n.hi >= 32768 THEN [hardened |-> TRUE, index |-> [lo |-> n.lo, hi |-> n.hi - 32768]]
    ELSE [hardened |-> FALSE, index |-> n]

\* u32::from(ChildNumber)
U32FromChildNumber(c) ==
    IF c.hardened THEN [lo |-> c.index.lo, hi |-> c.index.hi + 32768] ELSE c.index

RECURSIVE KeySourcePathBytes(_)
KeySourcePathBytes(path) ==
    IF path = <<>> THEN <<>>
    ELSE ConsensusSerializeU32(U32FromChildNumber(Head(path))) \o KeySourcePathBytes(Tail(path))

KeySourceSerialize(ks) == ks.fprint \o KeySourcePathBytes(ks.path)

\* variant: the index bytes read most significant byte first
RECURSIVE KeySourceDecodePath_BigEndian(_, _)
KeySourceDecodePath_BigEndian(d, dpath) ==
    IF d = <<>> THEN Ok(dpath)
    ELSE IF Len(d) < 4 THEN Err("ConsensusEncoding", "Io", 0)
    ELSE KeySourceDecodePath_BigEndian(Drop(d, 4),
            Append(dpath, ChildNumberFromU32(LeU32(<<d[4], d[3], d[2], d[1]>>))))

\* the while loop of lines 147-153: u32::consensus_decode until d is empty
RECURSIVE KeySourceDecodePath(_, _)
KeySourceDecodePath(d, dpath) ==
    IF d = <<>> THEN Ok(dpath)
    ELSE IF Len(d) < 4 THEN Err("ConsensusEncoding", "Io", 0)
    ELSE KeySourceDecodePath(Drop(d, 4), Append(dpath, ChildNumberFromU32(LeU32(Take(d, 4)))))

\* lines 144-155: bytes[0..4] and bytes[4..] panic when the slice is shorter
KeySourceDecodeBody(b) ==
    IF Len(b) < 4 THEN Panic("range end index 4 out of range for slice")
    ELSE LET dpath == KeySourceDecodePath(Drop(b, 4), <<>>)
         IN  IF dpath.tag = "Err" THEN dpath
             ELSE Ok([fprint |-> Take(b, 4), path |-> dpath.val])

\* variant: without the length check of lines 140-142
KeySourceDeserialize_NoGuard(b) == KeySourceDecodeBody(b)

KeySourceDeserialize(b) ==
    IF Len(b) < 4 THEN Err("NotEnoughData", "", 0)
    ELSE KeySourceDecodeBody(b)

key_source_len(ks) == 4 + 4 * Len(ks.path)

(***************************************************************************)
(* Signatures and keys.  The bitcoin / secp256k1 parsers are modelled by   *)
(* their control flow; the verdict of the curve-level parse is the oracle  *)
(* `good` (TRUE: the bytes are a valid encoding).                          *)
(***************************************************************************)
\* EcdsaSighashType::from_standard
StandardEcdsaSighash == {1, 2, 3, 129, 130, 131}

\* TapSighashType::from_consensus_u8
StandardTapSighash == {0, 1, 2, 3, 129, 130, 131}

\* ecdsa::Signature::from_slice: split_last, from_standard, from_der
EcdsaFromSlice(b, good) ==
    IF b = <<>> THEN Err("EmptySignature", "", 0)
    ELSE IF Last(b) \notin StandardEcdsaSighash THEN Err("SighashType", "", Last(b))
    ELSE IF ~good THEN Err("Secp256k1", "", 0)
    ELSE Ok([sig |-> Front(b), hash_ty |-> Last(b)])

\* variant: the sighash error folded into the generic signature error
EcdsaMapErr_Generic(e) ==
    CASE e.kind = "EmptySignature" -> Err("InvalidEcdsaSignature", "EmptySignature", 0)
      [] e.kind = "SighashType" -> Err("InvalidEcdsaSignature", "SighashType", 0)
      [] e.kind = "Secp256k1" -> Err("InvalidEcdsaSignature", "Secp256k1", 0)
      [] e.kind = "Hex" -> Panic("unreachable: Decoding from slice, not hex")
      [] OTHER -> Panic("TODO: Handle non_exhaustive error")

\* the map_err closure of lines 114-120
EcdsaMapErr(e) ==
    CASE e.kind = "EmptySignature" -> Err("InvalidEcdsaSignature", "EmptySignature", 0)
      [] e.kind = "SighashType" -> Err("NonStandardSighashType", "", e.code)
      [] e.kind = "Secp256k1" -> Err("InvalidEcdsaSignature", "Secp256k1", 0)
      [] e.kind = "Hex" -> Panic("unreachable: Decoding from slice, not hex")
      [] OTHER -> Panic("TODO: Handle non_exhaustive error")

EcdsaSignatureDeserialize(b, good) ==
    LET r == EcdsaFromSlice(b, good)
    IN  IF r.tag = "Err" THEN EcdsaMapErr(r) ELSE r

\* ecdsa::Signature::to_vec
EcdsaSignatureSerialize(s) == Append(s.sig, s.hash_ty)

\* taproot::Signature::from_slice: 64 bytes, 65 bytes, or InvalidSignatureSize
TaprootSigFromSlice(b, good) ==
    IF Len(b) = 64 THEN
        IF good THEN Ok([sig |-> b, hash_ty |-> 0]) ELSE Err("Secp256k1", "", 0)
    ELSE IF Len(b) = 65 THEN
        IF Last(b) \notin StandardTapSighash THEN Err("SighashType", "", Last(b))
        ELSE IF ~good THEN Err("Secp256k1", "", 0)
        ELSE Ok([sig |-> Front(b), hash_ty |-> Last(b)])
    ELSE Err("InvalidSignatureSize", "", Len(b))

\* the map_err closure of lines 244-249
TaprootSigMapErr(e) ==
    CASE e.kind = "SighashType" -> Err("NonStandardSighashType", "", e.code)
      [] e.kind = "InvalidSignatureSize" -> Err("InvalidTaprootSignature", "InvalidSignatureSize", 0)
      [] e.kind = "Secp256k1" -> Err("InvalidTaprootSignature", "Secp256k1", 0)
      [] OTHER -> Panic("TODO: Handle non_exhaustive error")

TaprootSignatureDeserialize(b, good) ==
    LET r == TaprootSigFromSlice(b, good)
    IN  IF r.tag = "Err" THEN TaprootSigMapErr(r) ELSE r

\* PublicKey::from_slice: 33 or 65 bytes that parse as a point
PublicKeyDeserialize(b, good) ==
    IF Len(b) \in {33, 65} /\ good THEN Ok(b) ELSE Err("InvalidPublicKey", "", 0)

Secp256k1PublicKeyDeserialize(b, good) ==
    IF Len(b) \in {33, 65} /\ good THEN Ok(b) ELSE Err("InvalidSecp256k1PublicKey", "", 0)

XOnlyPublicKeyDeserialize(b, good) ==
    IF Len(b) = 32 /\ good THEN Ok(b) ELSE Err("InvalidXOnlyPublicKey", "", 0)

ControlBlockDeserialize(b, good) ==
    IF good THEN Ok(b) ELSE Err("InvalidControlBlock", "", 0)

\* v2_impl_psbt_hash_de_serialize!: a hash is exactly `width` bytes
HashDeserialize(b, width) ==
    IF Len(b) < width THEN Err("NotEnoughData", "", 0)
    ELSE IF Len(b) > width THEN Err("InvalidHash", "", 0)
    ELSE Ok(b)

\* lines 263-272: bytes[..32] and bytes[32..]
XOnlyLeafHashDecodeBody(b, good) ==
    IF Len(b) < 32 THEN Panic("range end index 32 out of range for slice")
    ELSE LET a == XOnlyPublicKeyDeserialize(Take(b, 32), good)
             h == HashDeserialize(Drop(b, 32), 32)
         IN  IF a.tag # "Ok" THEN a
             ELSE IF h.tag # "Ok" THEN h
             ELSE Ok([key |-> a.val, leaf_hash |-> h.val])

XOnlyLeafHashDeserialize(b, good) ==
    IF Len(b) < 32 THEN Err("NotEnoughData", "", 0)
    ELSE XOnlyLeafHashDecodeBody(b, good)

(***************************************************************************)
(* Leaf versions and the (ScriptBuf, LeafVersion) pair.                    *)
(***************************************************************************)
\* LeafVersion::from_consensus: 0xC0 is TapScript; the annex prefix 0x50 and
\* odd values are refused; any other even value is a future version
LeafVersionFromConsensus(v) ==
    IF v = 192 THEN Ok([variant |-> "TapScript", future |-> 0])
    ELSE IF v = 80 THEN Err("InvalidTaprootLeafVersion", "", v)
    ELSE IF v % 2 = 1 THEN Err("InvalidTaprootLeafVersion", "", v)
    ELSE Ok([variant |-> "Future", future |-> v])

\* LeafVersion::to_consensus
LeafVersionToConsensus(lv) == IF lv.variant = "TapScript" THEN 192 ELSE lv.future

ScriptLeafVersionSerialize(p) == Append(p.script, LeafVersionToConsensus(p.ver))

\* variant: the leaf version taken from the first byte
ScriptLeafVersionDecodeBody_FirstByte(b) ==
    IF Len(b) = 0 THEN Panic("attempt to subtract with overflow")
    ELSE LET script == ScriptBufDeserialize(Tail(b))
             leaf_ver == LeafVersionFromConsensus(Head(b))
         IN  IF script.tag # "Ok" THEN script
             ELSE IF leaf_ver.tag # "Ok" THEN Err("InvalidLeafVersion", "", 0)
             ELSE Ok([script |-> script.val, ver |-> leaf_ver.val])

\* lines 299-303: bytes[..len - 1] and bytes[len - 1]
ScriptLeafVersionDecodeBody(b) ==
    IF Len(b) = 0 THEN Panic("attempt to subtract with overflow")
    ELSE LET script == ScriptBufDeserialize(Front(b))
             leaf_ver == LeafVersionFromConsensus(Last(b))
         IN  IF script.tag # "Ok" THEN script
             ELSE IF leaf_ver.tag # "Ok" THEN Err("InvalidLeafVersion", "", 0)
             ELSE Ok([script |-> script.val, ver |-> leaf_ver.val])

ScriptLeafVersionDeserialize(b) ==
    IF b = <<>> THEN Err("NotEnoughData", "", 0)
    ELSE ScriptLeafVersionDecodeBody(b)

(***************************************************************************)
(* Length-prefixed data (bitcoin::consensus): VarInt, ScriptBuf,           *)
(* Vec<TapLeafHash>.  A decoded length of 2^16 or more is kept as 2^16:    *)
(* all that is read of it is whether that many bytes follow.               *)
(***************************************************************************)
\* VarInt::consensus_encode for lengths below 2^16
VarIntEncode(n) ==
    IF n < 253 THEN <<n>> ELSE <<253, n % 256, n \div 256>>

\* VarInt::consensus_decode: [tag, val, used], or Err
VarIntDecode(s) ==
    IF s = <<>> THEN Err("ConsensusEncoding", "Io", 0)
    ELSE IF s[1] < 253 THEN [tag |-> "Ok", val |-> s[1], used |-> 1]
    ELSE IF s[1] = 253 THEN
        IF Len(s) < 3 THEN Err("ConsensusEncoding", "Io", 0)
        ELSE IF s[2] + 256 * s[3] < 253 THEN Err("ConsensusEncoding", "NonMinimalVarInt", 0)
        ELSE [tag |-> "Ok", val |-> s[2] + 256 * s[3], used |-> 3]
    ELSE IF s[1] = 254 THEN
        IF Len(s) < 5 THEN Err("ConsensusEncoding", "Io", 0)
        ELSE IF s[4] = 0 /\ s[5] = 0 THEN Err("ConsensusEncoding", "NonMinimalVarInt", 0)
        ELSE [tag |-> "Ok", val |-> 65536, used |-> 5]
    ELSE
        IF Len(s) < 9 THEN Err("ConsensusEncoding", "Io", 0)
        ELSE IF s[6] = 0 /\ s[7] = 0 /\ s[8] = 0 /\ s[9] = 0
             THEN Err("ConsensusEncoding", "NonMinimalVarInt", 0)
        ELSE [tag |-> "Ok", val |-> 65536, used |-> 9]

\* ScriptBuf::consensus_encode
ScriptConsensusEncode(script) == VarIntEncode(Len(script)) \o script

\* consensus::deserialize_partial::<ScriptBuf>: [tag, val, consumed], or Err
ScriptDeserializePartial(s) ==
    LET n == VarIntDecode(s)
    IN  IF n.tag = "Err" THEN n
        ELSE IF Len(s) - n.used < n.val THEN Err("ConsensusEncoding", "Io", 0)
        ELSE [tag |-> "Ok", val |-> SubSeq(s, n.used + 1, n.used + n.val),
              consumed |-> n.used + n.val]

RECURSIVE DecodeLeafHashes(_, _, _)
DecodeLeafHashes(n, s, acc) ==
    IF n = 0 THEN [tag |-> "Ok", val |-> acc, rest |-> s]
    ELSE IF Len(s) < 32 THEN Err("ConsensusEncoding", "Io", 0)
    ELSE DecodeLeafHashes(n - 1, Drop(s, 32), Append(acc, Take(s, 32)))

\* consensus::deserialize_partial::<Vec<TapLeafHash>>: [tag, val, consumed], or Err
LeafHashesDeserializePartial(s) ==
    LET n == VarIntDecode(s)
    IN  IF n.tag = "Err" THEN n
        ELSE LET hs == DecodeLeafHashes(n.val, Drop(s, n.used), <<>>)
             IN  IF hs.tag = "Err" THEN hs
                 ELSE [tag |-> "Ok", val |-> hs.val, consumed |-> Len(s) - Len(hs.rest)]

RECURSIVE Concat(_)
Concat(ss) == IF ss = <<>> THEN <<>> ELSE Head(ss) \o Concat(Tail(ss))

\* lines 307-315
LeafHashesKeySourceSerialize(p) ==
    VarIntEncode(Len(p.hashes)) \o Concat(p.hashes) \o KeySourceSerialize(p.source)

\* lines 317-323: bytes[consumed..] panics when consumed > len
LeafHashesKeySourceDeserialize(b) ==
    LET part == LeafHashesDeserializePartial(b)
    IN  IF part.tag = "Err" THEN part
        ELSE IF part.consumed > Len(b) THEN Panic("range start index out of range for slice")
        ELSE LET key_source == KeySourceDeserialize(Drop(b, part.consumed))
             IN  IF key_source.tag # "Ok" THEN key_source
                 ELSE Ok([hashes |-> part.val, source |-> key_source.val])

(***************************************************************************)
(* bitcoin::taproot: node hashes, NodeInfo, TaprootBuilder, TapTree.       *)
(* A hash is the (collision-free) sequence of numbers naming what was      *)
(* hashed: <<0, version, len>> \o script for a leaf, <<1>> \o a \o b for   *)
(* a branch with a <= b, <<2, id>> for a hidden node's hash.               *)
(***************************************************************************)
TAPROOT_CONTROL_MAX_NODE_COUNT == 128

RECURSIVE LexLess(_, _)
LexLess(a, b) ==
    IF b = <<>> THEN FALSE
    ELSE IF a = <<>> THEN TRUE
    ELSE IF Head(a) # Head(b) THEN Head(a) < Head(b)
    ELSE LexLess(Tail(a), Tail(b))

\* TapLeafHash::from_script
LeafHash(script, ver) == <<0, LeafVersionToConsensus(ver), Len(script)>> \o script

\* TapNodeHash::from_node_hashes: the smaller hash first
NodeHash(a, b) == IF LexLess(a, b) THEN <<1>> \o a \o b ELSE <<1>> \o b \o a

HiddenHash(id) == <<2, id>>

\* NodeInfo::new_leaf_with_ver
NewLeafWithVer(script, ver) ==
    [hash |-> LeafHash(script, ver),
     leaves |-> <<[script |-> script, ver |-> ver, merkle_branch |-> <<>>]>>,
     has_hidden_nodes |-> FALSE]

\* NodeInfo::new_hidden_node
NewHiddenNode(hash) == [hash |-> hash, leaves |-> <<>>, has_hidden_nodes |-> TRUE]

\* TaprootMerkleBranch::push of `h` on every leaf of `leaves`
PushSibling(leaves, h) ==
    [i \in 1..Len(leaves) |->
        [leaves[i] EXCEPT !.merkle_branch = Append(leaves[i].merkle_branch, h)]]

BranchFull(leaves) ==
    \E i \in 1..Len(leaves) : Len(leaves[i].merkle_branch) >= TAPROOT_CONTROL_MAX_NODE_COUNT

\* NodeInfo::combine_with_order
CombineWithOrder(a, b) ==
    IF BranchFull(a.leaves) \/ BranchFull(b.leaves)
    THEN Err("InvalidMerkleTreeDepth", "", 0)
    ELSE Ok([hash |-> NodeHash(a.hash, b.hash),
             leaves |-> PushSibling(a.leaves, b.hash) \o PushSibling(b.leaves, a.hash),
             has_hidden_nodes |-> a.has_hidden_nodes \/ b.has_hidden_nodes])

NoneSlot == [some |-> FALSE]

SomeSlot(node) == [some |-> TRUE, node |-> node]

\* TaprootBuilder::new
NewBuilder == <<>>

\* the tail of TaprootBuilder::insert: extend with None, then branch[depth] = Some(node)
PlaceNode(branch, node, depth) ==
    LET n == IF Len(branch) < depth + 1 THEN depth + 1 ELSE Len(branch)
    IN  [i \in 1..n |->
            IF i = depth + 1 THEN SomeSlot(node)
            ELSE IF i <= Len(branch) THEN branch[i]
            ELSE NoneSlot]

\* the while loop of TaprootBuilder::insert
RECURSIVE CombineUp(_, _, _)
CombineUp(branch, node, depth) ==
    IF Len(branch) # depth + 1 THEN Ok(PlaceNode(branch, node, depth))
    ELSE IF ~Last(branch).some THEN Ok(PlaceNode(branch, node, depth))
    ELSE IF depth = 0 THEN Err("OverCompleteTree", "", 0)
    ELSE LET c == CombineWithOrder(Last(branch).node, node)
         IN  IF c.tag = "Err" THEN c ELSE CombineUp(Front(branch), c.val, depth - 1)

\* TaprootBuilder::insert
BuilderInsert(branch, node, depth) ==
    IF depth > TAPROOT_CONTROL_MAX_NODE_COUNT THEN Err("InvalidMerkleTreeDepth", "", depth)
    ELSE IF depth + 1 < Len(branch) THEN Err("NodeNotInDfsOrder", "", 0)
    ELSE CombineUp(branch, node, depth)

\* TaprootBuilder::add_leaf_with_ver
AddLeafWithVer(branch, depth, script, ver) ==
    BuilderInsert(branch, NewLeafWithVer(script, ver), depth)

\* TaprootBuilder::add_hidden_node
AddHiddenNode(branch, depth, hash) == BuilderInsert(branch, NewHiddenNode(hash), depth)

\* variant: a builder without nodes converts to a tree without leaves
TapTreeTryFrom_EmptyIsTree(branch) ==
    IF branch = <<>> THEN Ok([hash |-> <<>>, leaves |-> <<>>, has_hidden_nodes |-> FALSE])
    ELSE IF Len(branch) # 1 THEN Err("IncompleteBuilderError", "NotFinalized", 0)
    ELSE IF ~branch[1].some THEN Panic("invariant guarantees node info exists")
    ELSE IF branch[1].node.has_hidden_nodes THEN Err("IncompleteBuilderError", "HiddenParts", 0)
    ELSE Ok(branch[1].node)

\* variant: conversion without the hidden-node check
TapTreeTryFrom_NoHiddenCheck(branch) ==
    IF Len(branch) # 1 THEN Err("IncompleteBuilderError", "NotFinalized", 0)
    ELSE IF ~branch[1].some THEN Panic("invariant guarantees node info exists")
    ELSE Ok(branch[1].node)

\* TapTree::try_from(builder) = TaprootBuilder::try_into_taptree
TapTreeTryFrom(branch) ==
    IF Len(branch) # 1 THEN Err("IncompleteBuilderError", "NotFinalized", 0)
    ELSE IF ~branch[1].some THEN Panic("invariant guarantees node info exists")
    ELSE IF branch[1].node.has_hidden_nodes THEN Err("IncompleteBuilderError", "HiddenParts", 0)
    ELSE Ok(branch[1].node)

(***************************************************************************)
(* impl Serialize / Deserialize for TapTree.                               *)
(***************************************************************************)
\* variant: leaf version written before the depth
TapTreeSerializeLeaf_Swapped(leaf) ==
    <<LeafVersionToConsensus(leaf.ver), Len(leaf.merkle_branch) % 256>>
        \o ScriptConsensusEncode(leaf.script)

\* lines 341-343: one leaf of TapTree::script_leaves
TapTreeSerializeLeaf(leaf) ==
    <<Len(leaf.merkle_branch) % 256, LeafVersionToConsensus(leaf.ver)>>
        \o ScriptConsensusEncode(leaf.script)

RECURSIVE TapTreeSerializeLeaves(_)
TapTreeSerializeLeaves(leaves) ==
    IF leaves = <<>> THEN <<>>
    ELSE TapTreeSerializeLeaf(Head(leaves)) \o TapTreeSerializeLeaves(Tail(leaves))

TapTreeSerialize(t) == TapTreeSerializeLeaves(t.leaves)

\* lines 357-359: bytes_iter.nth(consumed - 1)
AdvanceCursor(rest, consumed) == IF consumed > 0 THEN Drop(rest, consumed) ELSE rest

\* variant: the finalization error reported as the ordering error
TapTreeFinalize_AsOrdering(branch, n) ==
    LET t == TapTreeTryFrom(branch)
    IN  IF t.tag = "Err" THEN Err("Taproot", "Tree not in DFS order", n) ELSE t

\* line 366: finalization; n leaves were inserted
TapTreeFinalize(branch, n) ==
    LET t == TapTreeTryFrom(branch)
    IN  IF t.tag = "Err" THEN Err("TapTree", t.detail, n) ELSE t

\* variant: a leaf the builder refuses is dropped and decoding goes on
TapTreeInsertLeaf_SkipRefused(branch, depth, version, script, n) ==
    LET leaf_version == LeafVersionFromConsensus(version)
    IN  IF leaf_version.tag = "Err" THEN Err("InvalidLeafVersion", "", n)
        ELSE LET b == AddLeafWithVer(branch, depth, script, leaf_version.val)
             IN  IF b.tag = "Err" THEN Ok(branch) ELSE b

\* lines 360-364: one insertion; Ok(builder) or the decoder's error
TapTreeInsertLeaf(branch, depth, version, script, n) ==
    LET leaf_version == LeafVersionFromConsensus(version)
    IN  IF leaf_version.tag = "Err" THEN Err("InvalidLeafVersion", "", n)
        ELSE LET b == AddLeafWithVer(branch, depth, script, leaf_version.val)
             IN  IF b.tag = "Err" THEN Err("Taproot", "Tree not in DFS order", n) ELSE b

\* the loop of lines 353-365; n counts the leaves inserted so far
RECURSIVE TapTreeDecodeLoop(_, _, _)
TapTreeDecodeLoop(rest, branch, n) ==
    IF rest = <<>> THEN TapTreeFinalize(branch, n)
    ELSE IF Len(rest) < 2 THEN Err("Taproot", "Invalid Taproot Builder", n)
    ELSE LET part == ScriptDeserializePartial(Drop(rest, 2))
         IN  IF part.tag = "Err" THEN Err(part.kind, part.detail, n)
             ELSE LET b == TapTreeInsertLeaf(branch, rest[1], rest[2], part.val, n)
                  IN  IF b.tag # "Ok" THEN b
                      ELSE TapTreeDecodeLoop(AdvanceCursor(Drop(rest, 2), part.consumed),
                                             b.val, n + 1)

TapTreeDeserialize(b) == TapTreeDecodeLoop(b, NewBuilder, 0)

(***************************************************************************)
(* Inputs.  The PSBT map layer hands a decoder the raw bytes of a value;   *)
(* the model draws them from these sets.                                   *)
(***************************************************************************)
TailBytes == {0, 222}

WideBytes == {0, 1, 2, 80, 81, 129, 192, 193, 194, 222, 253}

Words == {<<0, 0, 0, 0>>, <<222, 0, 0, 0>>, <<1, 0, 0, 128>>, <<4, 3, 2, 1>>}

\* up to MaxWords 4-byte words, then up to MaxTail more bytes
WordInputs ==
    {Concat(ws) \o t : ws \in SeqUpTo(Words, MaxWords), t \in SeqUpTo(TailBytes, MaxTail)}

WideInputs == SeqUpTo(WideBytes, MaxWideLen)

\* key- and signature-sized blobs, with and without a trailing flag byte
BlobInputs ==
    {Fill(7, n) \o t : n \in {32, 33, 64}, t \in {<<>>, <<0>>, <<1>>, <<222>>}}

\* a count, some 32-byte hashes, a key-source tail
HashKeyInputs ==
    {<<n>> \o Fill(h, 32 * m) \o t :
        n \in 0..MaxHashes, m \in 0..MaxHashes, h \in {9},
        t \in {<<>>, <<0, 222>>, <<222, 0, 0, 0>>, <<222, 0, 0, 0, 1, 0, 0, 128>>,
               <<222, 0, 0, 0, 1>>}}

\* one leaf whose script length prefix takes each VarInt path
VarIntInputs ==
    {<<0, 192>> \o v : v \in {<<>>, <<2, 81>>, <<253>>, <<253, 1, 0>>, <<253, 253, 0>>,
                              <<254, 0, 0, 0, 0>>, <<254, 0, 0, 1, 0>>, <<255>>,
                              <<255, 0, 0, 0, 0, 0, 0, 0, 0>>,
                              <<255, 0, 0, 0, 0, 1, 0, 0, 0>>}}

RawInputs == WordInputs \cup WideInputs \cup BlobInputs \cup HashKeyInputs \cup VarIntInputs

\* depth bytes of generated leaf runs: every depth up to MaxDepth, and one
\* above TAPROOT_CONTROL_MAX_NODE_COUNT
RunDepths == 0..MaxDepth \cup {129}

\* (leaf version byte, script) of generated leaves; 193 is no leaf version
RunPayloads == {<<192, <<81>> >>, <<194, <<>> >>, <<193, <<81>> >>}

RunLeaves == {[depth |-> d, version |-> p[1], script |-> p[2]] : d \in RunDepths, p \in RunPayloads}

LeafRuns == SeqUpTo(RunLeaves, MaxRun)

\* the BIP-371 wire form of a leaf run: depth, leaf version, compact-size script
RECURSIVE EncodeRun(_)
EncodeRun(run) ==
    IF run = <<>> THEN <<>>
    ELSE <<Head(run).depth, Head(run).version>> \o VarIntEncode(Len(Head(run).script))
            \o Head(run).script \o EncodeRun(Tail(run))

\* (script, leaf version) values handed to serialize
ScriptVerValues ==
    {[type |-> "scriptver", script |-> sc, ver |-> LeafVersionFromConsensus(v).val] :
        sc \in SeqUpTo({0, 81, 192}, 2), v \in {192, 194, 0}}

\* leaves and hidden nodes handed to the builder
BuilderLeaves == {<<<<81>>, 192>>, <<<<185>>, 194>>}

NoOp == [name |-> "none", good |-> TRUE]

(***************************************************************************)
(* The codec under raw inputs.  Init draws the input; each action is one   *)
(* call of a Deserialize (or Serialize) implementation on it.              *)
(***************************************************************************)
Init ==
    /\ op = NoOp
    /\ res = NoResult
    /\ builder = NewBuilder
    /\ added = <<>>
    /\ tree = NoResult
    /\ \/ origin = "raw" /\ bytes \in RawInputs /\ val = NoVal
       \/ /\ origin = "run"
          /\ \E run \in LeafRuns :
                /\ val = [type |-> "run", run |-> run]
                /\ bytes = EncodeRun(run)
       \/ origin = "value" /\ val \in ScriptVerValues /\ bytes = <<>>

\* one call `T::deserialize(bytes)` returning r
Call(name, good, r) ==
    /\ origin \in {"raw", "serialized"}
    /\ op = NoOp
    /\ op' = [name |-> name, good |-> good]
    /\ res' = r
    /\ UNCHANGED <<bytes, origin, val, builder, added, tree>>

DeserializeU32 == Call("u32", TRUE, U32Deserialize(bytes))

DeserializeSequence == Call("Sequence", TRUE, SequenceDeserialize(bytes))

DeserializeHeight == Call("Height", TRUE, HeightDeserialize(bytes))

DeserializeTime == Call("Time", TRUE, TimeDeserialize(bytes))

DeserializePsbtSighashType == Call("PsbtSighashType", TRUE, PsbtSighashTypeDeserialize(bytes))

DeserializeVecU8 == Call("VecU8", TRUE, VecU8Deserialize(bytes))

DeserializeScriptBuf == Call("ScriptBuf", TRUE, ScriptBufDeserialize(bytes))

DeserializeKeySource == Call("KeySource", TRUE, KeySourceDeserialize(bytes))

DeserializeEcdsaSignature ==
    \E good \in BOOLEAN : Call("EcdsaSignature", good, EcdsaSignatureDeserialize(bytes, good))

DeserializeTaprootSignature ==
    \E good \in BOOLEAN : Call("TaprootSignature", good, TaprootSignatureDeserialize(bytes, good))

DeserializePublicKey ==
    \E good \in BOOLEAN : Call("PublicKey", good, PublicKeyDeserialize(bytes, good))

DeserializeSecp256k1PublicKey ==
    \E good \in BOOLEAN :
        Call("Secp256k1PublicKey", good, Secp256k1PublicKeyDeserialize(bytes, good))

DeserializeXOnlyPublicKey ==
    \E good \in BOOLEAN : Call("XOnlyPublicKey", good, XOnlyPublicKeyDeserialize(bytes, good))

DeserializeControlBlock ==
    \E good \in BOOLEAN : Call("ControlBlock", good, ControlBlockDeserialize(bytes, good))

DeserializeXOnlyLeafHash ==
    \E good \in BOOLEAN : Call("XOnlyLeafHash", good, XOnlyLeafHashDeserialize(bytes, good))

DeserializeScriptLeafVersion ==
    Call("ScriptLeafVersion", TRUE, ScriptLeafVersionDeserialize(bytes))

DeserializeLeafHashesKeySource ==
    Call("LeafHashesKeySource", TRUE, LeafHashesKeySourceDeserialize(bytes))

\* TapTree::deserialize, on raw bytes, on a leaf run or on a serialized tree
DeserializeTapTree ==
    /\ origin \in {"raw", "run", "serialized"}
    /\ op = NoOp
    /\ op' = [name |-> "TapTree", good |-> TRUE]
    /\ res' = TapTreeDeserialize(bytes)
    /\ UNCHANGED <<bytes, origin, val, builder, added, tree>>

\* <(ScriptBuf, LeafVersion) as Serialize>::serialize of the value held
SerializeScriptLeafVersion ==
    /\ origin = "value"
    /\ val.type = "scriptver"
    /\ bytes' = ScriptLeafVersionSerialize(val)
    /\ origin' = "serialized"
    /\ UNCHANGED <<val, op, res, builder, added, tree>>

\* tree.serialize() of the tree TapTree::deserialize returned
SerializeDecodedTapTree ==
    /\ origin \in {"raw", "run"}
    /\ op.name = "TapTree"
    /\ res.tag = "Ok"
    /\ bytes' = TapTreeSerialize(res.val)
    /\ origin' = "reserialized"
    /\ UNCHANGED <<val, op, res, builder, added, tree>>

Next ==
    \/ DeserializeU32
    \/ DeserializeSequence
    \/ DeserializeHeight
    \/ DeserializeTime
    \/ DeserializePsbtSighashType
    \/ DeserializeVecU8
    \/ DeserializeScriptBuf
    \/ DeserializeKeySource
    \/ DeserializeEcdsaSignature
    \/ DeserializeTaprootSignature
    \/ DeserializePublicKey
    \/ DeserializeSecp256k1PublicKey
    \/ DeserializeXOnlyPublicKey
    \/ DeserializeControlBlock
    \/ DeserializeXOnlyLeafHash
    \/ DeserializeScriptLeafVersion
    \/ DeserializeLeafHashesKeySource
    \/ DeserializeTapTree
    \/ SerializeScriptLeafVersion
    \/ SerializeDecodedTapTree

Spec == Init /\ [][Next]_vars

(***************************************************************************)
(* The tree codec under builder-made trees: leaves and hidden nodes are    *)
(* added to a TaprootBuilder, TapTree::try_from converts it, the tree is   *)
(* serialized and the bytes are decoded again.                             *)
(***************************************************************************)
InitTree ==
    /\ op = NoOp
    /\ res = NoResult
    /\ builder = NewBuilder
    /\ added = <<>>
    /\ tree = NoResult
    /\ origin = "builder"
    /\ bytes = <<>>
    /\ val = NoVal

\* builder = builder.add_leaf_with_ver(depth, script, ver).unwrap()
AddLeaf ==
    /\ origin = "builder"
    /\ tree = NoResult
    /\ Len(added) < MaxInsert
    /\ \E d \in 0..MaxDepth, p \in BuilderLeaves :
          LET ver == LeafVersionFromConsensus(p[2]).val
              r == AddLeafWithVer(builder, d, p[1], ver)
          IN  /\ r.tag = "Ok"
              /\ builder' = r.val
              /\ added' = Append(added, [kind |-> "leaf", depth |-> d,
                                         version |-> p[2], script |-> p[1]])
    /\ UNCHANGED <<bytes, origin, val, op, res, tree>>

\* builder = builder.add_hidden_node(depth, hash).unwrap()
AddHidden ==
    /\ origin = "builder"
    /\ tree = NoResult
    /\ Len(added) < MaxInsert
    /\ \E d \in 0..MaxDepth :
          LET r == AddHiddenNode(builder, d, HiddenHash(0))
          IN  /\ r.tag = "Ok"
              /\ builder' = r.val
              /\ added' = Append(added, [kind |-> "hidden", depth |-> d,
                                         version |-> 0, script |-> <<>>])
    /\ UNCHANGED <<bytes, origin, val, op, res, tree>>

\* TapTree::try_from(builder)
TryFromBuilder ==
    /\ origin = "builder"
    /\ tree = NoResult
    /\ tree' = TapTreeTryFrom(builder)
    /\ UNCHANGED <<bytes, origin, val, op, res, builder, added>>

\* tree.serialize()
SerializeTapTree ==
    /\ origin = "builder"
    /\ tree.tag = "Ok"
    /\ bytes' = TapTreeSerialize(tree.val)
    /\ origin' = "serialized"
    /\ UNCHANGED <<val, op, res, builder, added, tree>>

NextTree ==
    \/ AddLeaf
    \/ AddHidden
    \/ TryFromBuilder
    \/ SerializeTapTree
    \/ DeserializeTapTree

SpecTree == InitTree /\ [][NextTree]_vars

(***************************************************************************)
(* Vocabulary of the properties.                                           *)
(***************************************************************************)
\* the leaf versions BIP-341 recognises: even, and not the annex prefix 0x50
RecognizedLeafVersion(v) == v % 2 = 0 /\ v # 80

RECURSIVE Pow2(_)
Pow2(n) == IF n = 0 THEN 1 ELSE 2 * Pow2(n - 1)

\* A leaf at depth d covers 2^-d of the tree; widths are counted in units of
\* 2^-MaxDepth (generated depths are 0..MaxDepth, or above the 128 limit).
Width(d) == IF d <= MaxDepth THEN Pow2(MaxDepth - d) ELSE 0

WholeTree == Pow2(MaxDepth)

RECURSIVE Covered(_, _)
Covered(ds, k) == IF k = 0 THEN 0 ELSE Covered(ds, k - 1) + Width(ds[k])

\* the k-th leaf continues a depth-first, left-to-right traversal: the tree is
\* not yet full and the leaf starts on a boundary of its own width
StepInDfsOrder(ds, k) ==
    /\ ds[k] <= 128
    /\ ds[k] <= MaxDepth
    /\ Covered(ds, k - 1) < WholeTree
    /\ Covered(ds, k - 1) % Width(ds[k]) = 0

IsDfsPrefix(ds) == \A k \in 1..Len(ds) : StepInDfsOrder(ds, k)

IsCompleteTree(ds) == IsDfsPrefix(ds) /\ Covered(ds, Len(ds)) = WholeTree

FirstOffending(ds) ==
    CHOOSE k \in 1..Len(ds) :
        ~StepInDfsOrder(ds, k) /\ \A j \in 1..(k - 1) : StepInDfsOrder(ds, j)

DepthsOf(run) == [i \in 1..Len(run) |-> run[i].depth]

WellFormedRun(run) == \A i \in 1..Len(run) : RecognizedLeafVersion(run[i].version)

\* every insertion of the run is accepted by the builder
RECURSIVE BuilderAccepts(_, _)
BuilderAccepts(run, branch) ==
    \/ run = <<>>
    \/ LET r == AddLeafWithVer(branch, Head(run).depth, Head(run).script,
                               LeafVersionFromConsensus(Head(run).version).val)
       IN  r.tag = "Ok" /\ BuilderAccepts(Tail(run), r.val)

IsOrderingError(r) ==
    r.tag = "Err" /\ r.kind = "Taproot" /\ r.detail = "Tree not in DFS order"

IsIncompleteError(r) == r.tag = "Err" /\ r.kind = "TapTree"

HasHidden(ins) == \E i \in 1..Len(ins) : ins[i].kind = "hidden"

(***************************************************************************)
(* C1.  A tree made by the builder round-trips: its serialization is, per  *)
(* leaf in insertion (depth-first) order, the depth byte, the leaf version *)
(* byte and the length-prefixed script, and TapTree::deserialize of those  *)
(* bytes succeeds with a tree equal to the one serialized.                 *)
(***************************************************************************)
C1_TapTreeRoundTrip ==
    (origin = "serialized" /\ tree.tag = "Ok") =>
        /\ bytes = EncodeRun(added)
        /\ op.name = "TapTree" => (res.tag = "Ok" /\ res.val = tree.val)

C1_Witness ==
    /\ origin = "serialized"
    /\ op.name = "TapTree"
    /\ DepthsOf(added) = <<2, 2, 2, 3, 3>>
    /\ added[5].script = <<185>>
    /\ added[5].version = 194
    /\ res.tag = "Ok"
    /\ Len(res.val.leaves) = 5

(***************************************************************************)
(* C2.  As claimed: a well-formed leaf run whose depths are not a prefix   *)
(* of a depth-first traversal fails with the ordering error at the first   *)
(* offending insertion.                                                    *)
(***************************************************************************)
C2_Case ==
    /\ origin = "run"
    /\ op.name = "TapTree"
    /\ WellFormedRun(val.run)
    /\ ~IsDfsPrefix(DepthsOf(val.run))

C2_OrderingErrorAtFirstOffender ==
    C2_Case =>
        /\ IsOrderingError(res)
        /\ res.code = FirstOffending(DepthsOf(val.run)) - 1

(***************************************************************************)
(* C2, amended.  Such a run never decodes to a tree.  It fails with the    *)
(* ordering error at the first offending insertion, unless that insertion  *)
(* puts a leaf at depth 1..128 after the tree is already complete: the     *)
(* builder accepts that leaf, and decoding then fails at a later insertion *)
(* with the ordering error or at finalization with Error::TapTree.         *)
(***************************************************************************)
C2_Amended ==
    C2_Case =>
        LET ds == DepthsOf(val.run)
            k == FirstOffending(ds)
        IN  /\ res.tag = "Err"
            /\ IF Covered(ds, k - 1) = WholeTree /\ ds[k] \in 1..128
               THEN \/ IsOrderingError(res) /\ res.code >= k
                    \/ IsIncompleteError(res) /\ res.code = Len(ds)
               ELSE IsOrderingError(res) /\ res.code = k - 1

C2_Witness ==
    /\ C2_Case
    /\ DepthsOf(val.run) = <<2, 1, 1>>
    /\ IsOrderingError(res)
    /\ res.code = 1

(***************************************************************************)
(* C3.  A well-formed leaf run whose insertions the builder all accepts    *)
(* but whose leaves are not a complete tree fails at finalization, after   *)
(* every leaf was inserted, with Error::TapTree and not with the ordering  *)
(* error.                                                                  *)
(***************************************************************************)
C3_Case ==
    /\ origin = "run"
    /\ op.name = "TapTree"
    /\ WellFormedRun(val.run)
    /\ BuilderAccepts(val.run, NewBuilder)
    /\ ~IsCompleteTree(DepthsOf(val.run))

C3_IncompleteIsNotOrdering ==
    C3_Case =>
        /\ IsIncompleteError(res)
        /\ res.detail = "NotFinalized"
        /\ res.code = Len(val.run)
        /\ ~IsOrderingError(res)

C3_Witness ==
    /\ C3_Case
    /\ DepthsOf(val.run) = <<1, 2>>
    /\ IsIncompleteError(res)

(***************************************************************************)
(* C4.  A builder that accepted a hidden node never converts: try_from     *)
(* fails, with HiddenParts when the nodes form a complete tree, so every   *)
(* TapTree, and every serialized tree, was built of leaves only.           *)
(***************************************************************************)
C4_HiddenRejected ==
    /\ (tree.tag # "None" /\ HasHidden(added)) =>
            /\ tree.tag = "Err"
            /\ Len(builder) = 1 => tree.detail = "HiddenParts"
    /\ origin = "serialized" => ~HasHidden(added)

C4_Witness ==
    /\ DepthsOf(added) = <<2, 2, 2, 3, 3>>
    /\ added[4].version = 194
    /\ added[5].kind = "hidden"
    /\ Len(builder) = 1
    /\ tree.tag = "Err"
    /\ tree.detail = "HiddenParts"

(***************************************************************************)
(* C5.  As claimed: an ECDSA signature with an unrecognized trailing flag  *)
(* decodes successfully.                                                   *)
(***************************************************************************)
C5_Case ==
    /\ op.name = "EcdsaSignature"
    /\ bytes # <<>>
    /\ Last(bytes) \notin {1, 2, 3, 129, 130, 131}

C5_NonStandardSucceeds == C5_Case => res.tag = "Ok"

(***************************************************************************)
(* C5, amended.  With a recognized flag and a valid signature component    *)
(* decoding succeeds with that component and flag; with an unrecognized    *)
(* flag it fails, whatever the component, with NonStandardSighashType      *)
(* carrying the flag value, never with InvalidEcdsaSignature, and returns  *)
(* no signature component.                                                 *)
(***************************************************************************)
C5_Amended ==
    /\ C5_Case =>
            /\ res.tag = "Err"
            /\ res.kind = "NonStandardSighashType"
            /\ res.code = Last(bytes)
            /\ res.val = <<>>
    /\ (/\ op.name = "EcdsaSignature"
        /\ bytes # <<>>
        /\ Last(bytes) \in {1, 2, 3, 129, 130, 131}
        /\ op.good) =>
            /\ res.tag = "Ok"
            /\ res.val.sig = SubSeq(bytes, 1, Len(bytes) - 1)
            /\ res.val.hash_ty = bytes[Len(bytes)]

C5_Witness ==
    /\ C5_Case
    /\ Last(bytes) = 222
    /\ ~op.good
    /\ res.kind = "NonStandardSighashType"
    /\ res.code = 222

(***************************************************************************)
(* C6.  As claimed: a 32-bit integer type or a key source (fingerprint)    *)
(* given fewer than 4 bytes fails with NotEnoughData, and given exactly 4  *)
(* bytes does not fail with it.                                            *)
(***************************************************************************)
IntegerOps == {"u32", "Sequence", "Height", "Time", "PsbtSighashType"}

C6_ShortIsNotEnoughData ==
    (op.name \in IntegerOps \cup {"KeySource"}) =>
        /\ Len(bytes) < 4 => (res.tag = "Err" /\ res.kind = "NotEnoughData")
        /\ Len(bytes) = 4 => res.kind # "NotEnoughData"

(***************************************************************************)
(* C6, amended.  Given fewer than 4 bytes, the 32-bit integer types fail   *)
(* with ConsensusEncoding (the wrapped I/O error of the consensus          *)
(* decoder), and only the key source fails with NotEnoughData; given       *)
(* exactly 4 bytes none of them fails with either kind.                    *)
(***************************************************************************)
C6_Amended ==
    /\ (op.name \in IntegerOps /\ Len(bytes) < 4) =>
            (res.tag = "Err" /\ res.kind = "ConsensusEncoding" /\ res.detail = "Io")
    /\ (op.name = "KeySource" /\ Len(bytes) < 4) =>
            (res.tag = "Err" /\ res.kind = "NotEnoughData")
    /\ (op.name \in IntegerOps \cup {"KeySource"} /\ Len(bytes) = 4) =>
            res.kind \notin {"NotEnoughData", "ConsensusEncoding"}

C6_Witness ==
    /\ op.name = "u32"
    /\ Len(bytes) = 3
    /\ res.kind = "ConsensusEncoding"

(***************************************************************************)
(* C7.  No call of a deserialize ends in a panic: every one returns Ok or  *)
(* Err.                                                                    *)
(***************************************************************************)
C7_NoPanic == res.tag # "Panic"

C7_Witness ==
    /\ op.name = "KeySource"
    /\ bytes = <<>>
    /\ res.tag = "Err"

(***************************************************************************)
(* C8.  KeySource::deserialize fails with NotEnoughData below 4 bytes; on  *)
(* 4 + 4k bytes it yields the first 4 bytes as fingerprint and k child     *)
(* numbers, the i-th being the little-endian u32 of its 4 bytes, and the   *)
(* result serializes back to the input.                                    *)
(***************************************************************************)
C8_KeySourceByLength ==
    op.name = "KeySource" =>
        /\ Len(bytes) < 4 => (res.tag = "Err" /\ res.kind = "NotEnoughData")
        /\ (Len(bytes) >= 4 /\ Len(bytes) % 4 = 0) =>
            /\ res.tag = "Ok"
            /\ res.val.fprint = SubSeq(bytes, 1, 4)
            /\ Len(res.val.path) = (Len(bytes) - 4) \div 4
            /\ \A i \in 1..Len(res.val.path) :
                  LET c == res.val.path[i]
                      top == bytes[4 * i + 4]
                  IN  /\ c.hardened = (top >= 128)
                      /\ c.index.lo = bytes[4 * i + 1] + 256 * bytes[4 * i + 2]
                      /\ c.index.hi = bytes[4 * i + 3] + 256 * (top % 128)
            /\ KeySourceSerialize(res.val) = bytes
            /\ key_source_len(res.val) = Len(bytes)

C8_Witness ==
    /\ op.name = "KeySource"
    /\ Len(bytes) = 8
    /\ res.tag = "Ok"
    /\ Len(res.val.path) = 1

(***************************************************************************)
(* C9.  The (script, leaf version) pair: serialize is the script followed  *)
(* by the version byte; deserialize fails with NotEnoughData exactly on    *)
(* the empty input, with InvalidLeafVersion exactly when the last byte is  *)
(* no recognized leaf version, and otherwise returns all but the last byte *)
(* as script and the last byte as version; a serialized pair decodes to    *)
(* itself.                                                                 *)
(***************************************************************************)
C9_ScriptLeafVersion ==
    /\ (origin = "serialized" /\ val.type = "scriptver") =>
            bytes = val.script \o <<LeafVersionToConsensus(val.ver)>>
    /\ op.name = "ScriptLeafVersion" =>
        /\ (res.tag = "Err" /\ res.kind = "NotEnoughData") <=> bytes = <<>>
        /\ (res.tag = "Err" /\ res.kind = "InvalidLeafVersion") <=>
                (bytes # <<>> /\ ~RecognizedLeafVersion(bytes[Len(bytes)]))
        /\ (bytes # <<>> /\ RecognizedLeafVersion(bytes[Len(bytes)])) =>
                /\ res.tag = "Ok"
                /\ res.val.script = SubSeq(bytes, 1, Len(bytes) - 1)
                /\ LeafVersionToConsensus(res.val.ver) = bytes[Len(bytes)]
        /\ (origin = "serialized" /\ val.type = "scriptver") =>
                /\ res.tag = "Ok"
                /\ res.val.script = val.script
                /\ res.val.ver = val.ver

C9_Witness ==
    /\ op.name = "ScriptLeafVersion"
    /\ origin = "serialized"
    /\ val.script = <<81>>
    /\ bytes = <<81, 192>>
    /\ res.tag = "Ok"
    /\ res.val.ver.variant = "TapScript"

(***************************************************************************)
(* C10.  PsbtSighashType::deserialize succeeds on every 4-byte input, with *)
(* the little-endian u32 of the bytes and no range check, and the result   *)
(* serializes back to the same 4 bytes.                                    *)
(***************************************************************************)
C10_SighashTypePermissive ==
    (op.name = "PsbtSighashType" /\ Len(bytes) = 4) =>
        /\ res.tag = "Ok"
        /\ res.val.inner.lo = bytes[1] + 256 * bytes[2]
        /\ res.val.inner.hi = bytes[3] + 256 * bytes[4]
        /\ PsbtSighashTypeSerialize(res.val) = bytes

C10_Witness ==
    /\ op.name = "PsbtSighashType"
    /\ bytes = <<222, 0, 0, 0>>
    /\ res.tag = "Ok"
    /\ res.val.inner = [lo |-> 222, hi |-> 0]

(***************************************************************************)
(* C11.  TapTree::deserialize of the empty byte string returns no tree:    *)
(* the loop inserts nothing, finalization of the empty builder fails and   *)
(* the result is Error::TapTree, reported after zero insertions.  Every    *)
(* tree the decoder returns has at least one leaf, each leaf serializes to *)
(* at least its depth byte, version byte and script length, and so no      *)
(* decoded tree serializes to the empty byte string.                       *)
(***************************************************************************)
C11_EmptyIsNoTree ==
    /\ (op.name = "TapTree" /\ origin \in {"raw", "run"} /\ bytes = <<>>) =>
            /\ IsIncompleteError(res)
            /\ res.detail = "NotFinalized"
            /\ res.code = 0
    /\ (op.name = "TapTree" /\ res.tag = "Ok") =>
            /\ Len(res.val.leaves) >= 1
            /\ Len(TapTreeSerialize(res.val)) >= 3 * Len(res.val.leaves)
    /\ origin = "reserialized" => bytes # <<>>

C11_Witness ==
    /\ op.name = "TapTree"
    /\ origin = "raw"
    /\ bytes = <<>>
    /\ IsIncompleteError(res)
    /\ res.code = 0

====
